---------------------------- MODULE Spec2Model ----------------------------
(***************************************************************************)
(* EmailVerificationHandler (get_email_code.py): the retry controller      *)
(* get_verification_code, the three mail backends (IMAP, POP3, HTTP        *)
(* temp-mailbox) and the HTTP cleanup, as one sequential state machine.    *)
(* The mail server is the environment: it answers every network step with  *)
(* a success, a refusal or a transport failure, and delivers new messages. *)
(***************************************************************************)
EXTENDS Integers, Sequences, FiniteSets, TLC

(* ------------------------------ bounds -------------------------------- *)
\* largest max_retries a caller passes
MaxRetries == 2
\* number of messages the server delivers in one behaviour
MaxMsgs == 2

(* ------------------------- program constants -------------------------- *)
\* if retry >= 20: raise
SubRetryCap == 20
\* for _ in range(5)
CleanupTries == 5
\* \d{6}
CodeLen == 6
\* max(1, num_messages-9)
Pop3Window == 9

(* ------------------------------- text --------------------------------- *)
\* Texts are tuples of one-character strings.
Digits == {"1", "2", "3", "4", "5", "6", "7"}
Letters == {"c", "q", "t", "o", "h", "i"}
\* None: no code / no message id
NoCode == <<>>
NoId == 0

\* self.account, an address whose local part is six digits
Account == <<"1", "2", "3", "4", "5", "6", "@", "q">>
OtherAccount == <<"7", "@", "q">>

\* \w of the regex engine
IsWord(c) == c \in Digits \cup Letters \cup {"_"}

\* \b between positions i and i+1 of s (i = 0 is the start, i = Len(s) the end)
WordBoundary(s, i) ==
    LET left == i >= 1 /\ IsWord(s[i])
        right == i + 1 <= Len(s) /\ IsWord(s[i + 1])
    IN left # right

\* (?<![a-zA-Z@.]) before position p
LookBehindOk(s, p) == p = 1 \/ s[p - 1] \notin Letters \cup {"@", "."}

\* \b\d{6}\b matches at position p; strict adds the HTTP backend's lookbehind
MatchAt(s, p, strict) ==
    /\ p >= 1
    /\ p + CodeLen - 1 <= Len(s)
    /\ \A k \in p..(p + CodeLen - 1) : s[k] \in Digits
    /\ WordBoundary(s, p - 1)
    /\ WordBoundary(s, p + CodeLen - 1)
    /\ strict => LookBehindOk(s, p)

\* re.search(...).group(): the leftmost match, or None
Search(s, strict) ==
    LET hits == {p \in 1..Len(s) : MatchAt(s, p, strict)}
    IN IF hits = {} THEN NoCode
       ELSE LET p == CHOOSE q \in hits : \A r \in hits : q <= r
            IN SubSeq(s, p, p + CodeLen - 1)

\* s has pat at position p
HasAt(s, pat, p) ==
    /\ p + Len(pat) - 1 <= Len(s)
    /\ \A k \in 1..Len(pat) : s[p + k - 1] = pat[k]

RECURSIVE ReplaceFrom(_, _, _)
\* body.replace(pat, '') from position p on: non-overlapping, left to right
ReplaceFrom(s, pat, p) ==
    IF p > Len(s) THEN <<>>
    ELSE IF Len(pat) > 0 /\ HasAt(s, pat, p) THEN ReplaceFrom(s, pat, p + Len(pat))
    ELSE <<s[p]>> \o ReplaceFrom(s, pat, p + 1)

\* body.replace(self.account, '')
StripAccount(body) == ReplaceFrom(body, Account, 1)

(* ----------------------------- messages ------------------------------- *)
\* 'no-reply@cursor.sh' in msg.get('From', '')
FromHasSender(from) == from \in {"no-reply@cursor.sh", "Cursor <no-reply@cursor.sh>"}

\* "c 654321"
TextCode == <<"c", " ", "6", "5", "4", "3", "2", "1">>
\* "to 123456@q 777777": the account address, then a code
TextAcct == <<"t", "o", " ", "1", "2", "3", "4", "5", "6", "@", "q", " ", "7", "7", "7", "7", "7", "7">>
\* "hi"
TextNone == <<"h", "i">>
\* "@654321": six digits glued to a domain symbol
TextDomain == <<"@", "6", "5", "4", "3", "2", "1">>

\* The messages the server can deliver (single-part messages).
MsgKinds ==
    { [to |-> Account, from |-> "no-reply@cursor.sh", plain |-> TRUE, text |-> TextCode],
      [to |-> Account, from |-> "Cursor <no-reply@cursor.sh>", plain |-> TRUE, text |-> TextAcct],
      [to |-> Account, from |-> "no-reply@cursor.sh", plain |-> TRUE, text |-> TextNone],
      [to |-> OtherAccount, from |-> "spam@q", plain |-> FALSE, text |-> TextDomain] }

\* _extract_imap_body of a single-part message
ExtractImapBody(m) == IF m.plain THEN m.text ELSE <<>>

\* _extract_pop3_body of a single-part message: the payload, whatever its type
ExtractPop3Body(m) == m.text

\* the code the IMAP loop body finds in message m, or None
ImapCodeOf(m, byDate) ==
    IF byDate /\ m.to # Account THEN NoCode
    ELSE LET body == ExtractImapBody(m)
         IN IF body = <<>> THEN NoCode ELSE Search(StripAccount(body), FALSE)

\* the code the POP3 loop body finds in message m, or None
Pop3CodeOf(m) ==
    IF ~FromHasSender(m.from) THEN NoCode
    ELSE LET body == ExtractPop3Body(m)
         IN IF body = <<>> THEN NoCode ELSE Search(body, FALSE)

\* the code _get_latest_mail_code finds in the detail text
HttpCodeOf(m) == Search(m.text, TRUE)

(* --------------------------- configuration --------------------------- *)
\* Protocol strings are tuples of one-character strings; the empty tuple is
\* the empty or missing setting (both are false for "or").
ProtoIMAP == <<"I", "M", "A", "P">>
ProtoPOP3 == <<"P", "O", "P", "3">>

\* str.upper() of one character
UpperChar(c) ==
    CASE c = "i" -> "I" [] c = "m" -> "M" [] c = "a" -> "A" [] c = "p" -> "P"
      [] c = "o" -> "O" [] c = "s" -> "S" [] c = "t" -> "T" [] OTHER -> c

\* a comparison that forgets upper()
Upper_asis(p) == p

\* str.upper()
Upper(p) == [i \in 1..Len(p) |-> UpperChar(p[i])]

\* Config().get_protocol() or 'POP3'
ProtocolOrDefault(p) == IF p = <<>> THEN ProtoPOP3 ELSE p

\* imap_user.endswith(('@163.com', '@126.com', '@yeah.net'))
SearchByDate(user) == user \in {"u@163.com", "u@126.com", "u@yeah.net"}

\* the backend get_verification_code calls for a configuration
SelectBackend(c) ==
    IF ~c.imap THEN "HTTP"
    ELSE IF Upper(ProtocolOrDefault(c.protocol)) = ProtoIMAP THEN "IMAP" ELSE "POP3"

\* The configurations: imap is whether an IMAP/POP3 server is configured.
Configs ==
    { [imap |-> FALSE, protocol |-> <<>>, imap_user |-> ""],
      [imap |-> FALSE, protocol |-> <<"I", "M", "A", "P">>, imap_user |-> ""],
      [imap |-> TRUE, protocol |-> <<"I", "M", "A", "P">>, imap_user |-> "u@gmail.com"],
      [imap |-> TRUE, protocol |-> <<"i", "M", "a", "p">>, imap_user |-> "u@163.com"],
      [imap |-> TRUE, protocol |-> <<>>, imap_user |-> "u@gmail.com"],
      [imap |-> TRUE, protocol |-> <<"s", "m", "t", "p">>, imap_user |-> "u@gmail.com"] }

(* ------------------------------- state -------------------------------- *)
VARIABLES
    config,        \* the handler's configuration (self.imap, self.protocol)
    max_retries,   \* argument of get_verification_code
    attempt,       \* loop variable of get_verification_code
    pc,            \* position of the single thread
    result,        \* what get_verification_code returned or raised
    retry,         \* retry argument of the running backend frame
    code,          \* code found / value being returned by the backend
    first_id,      \* first_id of the HTTP backend
    mail_ids,      \* mail_ids of the IMAP session (sequence numbers)
    idx,           \* loop position: index into mail_ids (IMAP), i (POP3)
    num_messages,  \* num_messages of the POP3 session
    tries,         \* loop counter of _cleanup_mail
    mailbox,       \* the server's messages, oldest first
    nextUid,       \* uid of the next delivered message
    open,          \* sessions of this backend invocation that are connected and
                   \* not logged out, each named by the retry of its frame
    stale,         \* a session of an earlier invocation was never logged out
    outcomes,      \* history: what each backend invocation gave the controller
    exc,           \* history: origin of the exception in flight
    tfail,         \* history: a network step of this invocation failed
    timedOut,      \* history: this invocation raised the sub-retry timeout
    flagged,       \* history: uids this invocation flagged \Deleted
    expunged,      \* history: uids removed by this invocation's expunge
    srcUid,        \* history: uid of the message the code was taken from
    lastList,      \* history: last response of the HTTP list endpoint
    lastDetail,    \* history: this invocation's response of the detail endpoint
    detailReqs,    \* history: detail requests of this invocation
    delReqs,       \* history: delete requests, the ids they carried
    ctlSleeps,     \* history: time.sleep(retry_interval) calls
    calls,         \* history: the backend each outer attempt invoked
    opened,        \* history: sessions this invocation has opened so far
    quits,         \* history: sessions of this invocation on which the POP3
                   \* backend has attempted QUIT
    fetched,       \* history: sequence numbers the running IMAP scan fetched
                   \* with status OK
    passed         \* history: uids of the messages the running IMAP scan went
                   \* past (fetch not OK, other recipient, no match)

ctlVars == <<config, max_retries, attempt, result, outcomes, ctlSleeps>>
frameVars == <<retry, code, first_id, mail_ids, idx, num_messages, tries>>
srvVars == <<mailbox, nextUid, open, stale>>
histVars == <<exc, tfail, timedOut, flagged, expunged, srcUid, lastList, lastDetail,
              detailReqs, delReqs>>
\* what the running call and the running backend invocation have done so far
sessVars == <<calls, opened, quits, fetched, passed>>
vars == <<ctlVars, pc, frameVars, srvVars, histVars, sessVars>>

NoResult == [kind |-> "none", code |-> NoCode]
NoList == [kind |-> "none", result |-> FALSE, first_id |-> NoId]

Init ==
    /\ config \in Configs
    /\ max_retries = 0
    /\ attempt = 0
    /\ pc = "idle"
    /\ result = NoResult
    /\ retry = 0
    /\ code = NoCode
    /\ first_id = NoId
    /\ mail_ids = <<>>
    /\ idx = 0
    /\ num_messages = 0
    /\ tries = 0
    /\ mailbox = <<>>
    /\ nextUid = 1
    /\ open = {}
    /\ stale = FALSE
    /\ outcomes = <<>>
    /\ exc = "none"
    /\ tfail = FALSE
    /\ timedOut = FALSE
    /\ flagged = {}
    /\ expunged = {}
    /\ srcUid = NoId
    /\ lastList = NoList
    /\ lastDetail = "none"
    /\ detailReqs = 0
    /\ delReqs = <<>>
    /\ ctlSleeps = 0
    /\ calls = <<>>
    /\ opened = {}
    /\ quits = {}
    /\ fetched = {}
    /\ passed = {}

(* ---------------------------- environment ----------------------------- *)
\* The points where the program next looks at the mailbox: a message that
\* arrives between two of them is seen as if it arrived at the second.
Observing == {"idle", "http_list", "imap_enter", "pop3_enter"}

\* The frames of a backend invocation before whose session mail arrives: the
\* first, the second and the last one.
DeliverFrames == {0, 1, SubRetryCap - 1}

\* The server delivers a message: it becomes the newest of the mailbox.
Deliver ==
    /\ pc \in Observing
    /\ retry \in DeliverFrames
    /\ nextUid <= MaxMsgs
    /\ \E k \in MsgKinds :
        mailbox' = Append(mailbox,
            [uid |-> nextUid, to |-> k.to, from |-> k.from, plain |-> k.plain,
             text |-> k.text, deleted |-> FALSE, seen |-> FALSE])
    /\ nextUid' = nextUid + 1
    /\ UNCHANGED <<ctlVars, pc, frameVars, open, stale, histVars>>
    /\ UNCHANGED sessVars

(* ------------------------- retry controller --------------------------- *)
\* off by one: the loop runs once more than range(max_retries)
InRange_off(a, n) == a <= n

\* for attempt in range(max_retries): the loop runs another iteration
InRange(a, n) == a < n

\* off by one: the last attempt is taken for one that is followed by another
NotLastAttempt_off(a, n) == a < n

\* if attempt < max_retries - 1: not the last attempt
NotLastAttempt(a, n) == a < n - 1

\* entry point of the selected backend
EntryOf(backend) ==
    CASE backend = "HTTP" -> "http_list"
      [] backend = "IMAP" -> "imap_enter"
      [] backend = "POP3" -> "pop3_enter"

\* a caller calls get_verification_code(max_retries = n)
Call ==
    /\ pc = "idle"
    /\ \E n \in 0..MaxRetries : max_retries' = n
    /\ attempt' = 0
    /\ pc' = "loop"
    /\ UNCHANGED <<config, result, outcomes, ctlSleeps, frameVars, srvVars, histVars>>
    /\ UNCHANGED sessVars

\* loop head: invoke the selected backend, or leave the loop and raise
\* "Verification code not obtained after N attempts"
LoopHead ==
    /\ pc = "loop"
    /\ IF InRange(attempt, max_retries)
       THEN /\ pc' = EntryOf(SelectBackend(config))
            /\ retry' = 0
            /\ code' = NoCode
            /\ first_id' = NoId
            /\ exc' = "none"
            /\ tfail' = FALSE
            /\ timedOut' = FALSE
            /\ detailReqs' = 0
            /\ lastDetail' = "none"
            /\ flagged' = {}
            /\ expunged' = {}
            /\ open' = {}
            /\ stale' = (stale \/ open # {})
            /\ calls' = Append(calls, SelectBackend(config))
            /\ opened' = {}
            /\ quits' = {}
            /\ fetched' = {}
            /\ passed' = {}
            /\ UNCHANGED result
       ELSE /\ pc' = "done"
            /\ result' = [kind |-> "exhausted", code |-> NoCode]
            /\ UNCHANGED <<retry, code, first_id, exc, tfail, timedOut, detailReqs,
                           lastDetail, flagged, expunged, open, stale, sessVars>>
    /\ UNCHANGED <<config, max_retries, attempt, outcomes, ctlSleeps, mail_ids, idx,
                   num_messages, tries, mailbox, nextUid, srcUid, lastList, delReqs>>

\* lines 53-55 and 59-61: sleep unless this was the last attempt, next iteration
NextAttempt ==
    /\ ctlSleeps' = IF NotLastAttempt(attempt, max_retries) THEN ctlSleeps + 1 ELSE ctlSleeps
    /\ attempt' = attempt + 1
    /\ pc' = "loop"

\* a check that takes every return of the HTTP backend for a code
HttpFound_always(c, id) == TRUE

\* line 42: verify_code is not None and first_id is not None
HttpFound(c, id) == c # NoCode /\ id # NoId

\* the backend returned to the controller (lines 41-55)
CtlReturn ==
    /\ pc = "ctl_ret"
    /\ IF SelectBackend(config) = "HTTP"
       THEN IF HttpFound(code, first_id)
            THEN /\ outcomes' = Append(outcomes, "code")
                 /\ tries' = 0
                 /\ pc' = "cleanup"
                 /\ UNCHANGED <<attempt, ctlSleeps, result>>
            ELSE /\ outcomes' = Append(outcomes, "none")
                 /\ NextAttempt
                 /\ UNCHANGED <<tries, result>>
       ELSE IF code # NoCode
            THEN /\ outcomes' = Append(outcomes, "code")
                 /\ result' = [kind |-> "code", code |-> code]
                 /\ pc' = "done"
                 /\ UNCHANGED <<attempt, ctlSleeps, tries>>
            ELSE /\ outcomes' = Append(outcomes, "none")
                 /\ NextAttempt
                 /\ UNCHANGED <<tries, result>>
    /\ UNCHANGED <<config, max_retries, retry, code, first_id, mail_ids, idx, num_messages,
                   srvVars, histVars>>
    /\ UNCHANGED sessVars

\* except Exception (lines 57-63): retry, or wrap and raise on the last attempt
CtlExcept ==
    /\ pc = "ctl_exc"
    /\ outcomes' = IF exc = "cleanup" THEN outcomes ELSE Append(outcomes, "raise")
    /\ IF NotLastAttempt(attempt, max_retries)
       THEN /\ NextAttempt
            /\ UNCHANGED result
       ELSE /\ result' = [kind |-> "wrapped", code |-> NoCode]
            /\ pc' = "done"
            /\ UNCHANGED <<attempt, ctlSleeps>>
    /\ UNCHANGED <<config, max_retries, frameVars, srvVars, histVars>>
    /\ UNCHANGED sessVars

(* ------------------------ HTTP temp-mailbox --------------------------- *)
\* uid of the newest message, or none
NewestId(mb) == IF mb = <<>> THEN NoId ELSE mb[Len(mb)].uid

\* what GET /api/mails can answer
ListResponses(mb) ==
    { [kind |-> "raise", result |-> FALSE, first_id |-> NoId],
      [kind |-> "json", result |-> FALSE, first_id |-> NewestId(mb)],
      [kind |-> "json", result |-> TRUE, first_id |-> NoId],
      [kind |-> "json", result |-> TRUE, first_id |-> NewestId(mb)] }

\* a check that forgets the missing first_id
ListAccepted_noid(r) == r.result

\* lines 222-228: the list response lets the backend go on to the detail fetch
ListAccepted(r) == r.result /\ r.first_id # NoId

\* the messages with uid id
WithUid(mb, id) == {p \in 1..Len(mb) : mb[p].uid = id}

\* _get_latest_mail_code, the list request (lines 218-228)
HttpList ==
    /\ pc = "http_list"
    /\ \E r \in ListResponses(mailbox) :
        /\ lastList' = r
        /\ IF r.kind = "raise"
           THEN /\ exc' = "transport"
                /\ tfail' = TRUE
                /\ pc' = "ctl_exc"
                /\ UNCHANGED <<code, first_id>>
           ELSE IF ListAccepted(r)
           THEN /\ first_id' = r.first_id
                /\ pc' = "http_detail"
                /\ UNCHANGED <<code, exc, tfail>>
           ELSE /\ code' = NoCode
                /\ first_id' = NoId
                /\ pc' = "ctl_ret"
                /\ UNCHANGED <<exc, tfail>>
    /\ UNCHANGED <<ctlVars, retry, mail_ids, idx, num_messages, tries, srvVars,
                   timedOut, flagged, expunged, srcUid, lastDetail, detailReqs, delReqs>>
    /\ UNCHANGED sessVars

\* _get_latest_mail_code, the detail request and the match (lines 231-247)
HttpDetail ==
    /\ pc = "http_detail"
    /\ detailReqs' = detailReqs + 1
    /\ \E r \in {"raise", "false", "true"} :
        /\ lastDetail' = r
        /\ CASE r = "raise" ->
                    /\ exc' = "transport"
                    /\ tfail' = TRUE
                    /\ pc' = "ctl_exc"
                    /\ UNCHANGED <<code, first_id, srcUid>>
              [] r = "false" ->
                    /\ code' = NoCode
                    /\ first_id' = NoId
                    /\ pc' = "ctl_ret"
                    /\ UNCHANGED <<exc, tfail, srcUid>>
              [] r = "true" ->
                    /\ WithUid(mailbox, first_id) # {}
                    /\ LET m == mailbox[CHOOSE p \in WithUid(mailbox, first_id) : TRUE]
                           c == HttpCodeOf(m)
                       IN /\ code' = c
                          /\ first_id' = IF c # NoCode THEN first_id ELSE NoId
                          /\ srcUid' = IF c # NoCode THEN m.uid ELSE srcUid
                    /\ pc' = "ctl_ret"
                    /\ UNCHANGED <<exc, tfail>>
    /\ UNCHANGED <<ctlVars, retry, mail_ids, idx, num_messages, tries, srvVars,
                   timedOut, flagged, expunged, lastList, delReqs>>
    /\ UNCHANGED sessVars

\* the mailbox without the message id
Without(mb, id) == SelectSeq(mb, LAMBDA m : m.uid # id)

\* _cleanup_mail (lines 259-271) and the return of line 44
Cleanup ==
    /\ pc = "cleanup"
    /\ IF tries < CleanupTries
       THEN /\ delReqs' = Append(delReqs, first_id)
            /\ \E r \in {"raise", "malformed", "false", "true"} :
                CASE r = "raise" ->
                        /\ exc' = "cleanup"
                        /\ pc' = "ctl_exc"
                        /\ UNCHANGED <<tries, result, mailbox>>
                  [] r = "true" ->
                        /\ mailbox' = Without(mailbox, first_id)
                        /\ result' = [kind |-> "code", code |-> code]
                        /\ pc' = "done"
                        /\ UNCHANGED <<tries, exc>>
                  [] r \in {"malformed", "false"} ->
                        /\ tries' = tries + 1
                        /\ UNCHANGED <<pc, exc, result, mailbox>>
       ELSE /\ result' = [kind |-> "code", code |-> code]
            /\ pc' = "done"
            /\ UNCHANGED <<tries, exc, mailbox, delReqs>>
    /\ UNCHANGED <<config, max_retries, attempt, outcomes, ctlSleeps, retry, code, first_id,
                   mail_ids, idx, num_messages, nextUid, open, stale, tfail, timedOut, flagged,
                   expunged, srcUid, lastList, lastDetail, detailReqs>>
    /\ UNCHANGED sessVars

(* ------------------------------- IMAP --------------------------------- *)
\* the session of the running frame
Session == retry

\* SEARCH: TO "<account>", or ON <today> UNSEEN for the date search
Found(m, byDate) == IF byDate THEN ~m.seen ELSE m.to = Account

RECURSIVE Ascending(_)
\* a set of sequence numbers as the list the server sends
Ascending(S) ==
    IF S = {} THEN <<>>
    ELSE LET lo == CHOOSE x \in S : \A y \in S : x <= y
         IN <<lo>> \o Ascending(S \ {lo})

\* messages[0].split()
SearchIds(mb, byDate) == Ascending({p \in 1..Len(mb) : Found(mb[p], byDate)})

\* a handler that lets the exception leave the frame
ImapOnException_reraise == "imap_raise"

\* except Exception (lines 122-124): the frame returns None
ImapOnException == "imap_ret"

\* a network step of the IMAP session raised
ImapFail ==
    /\ tfail' = TRUE
    /\ code' = NoCode
    /\ pc' = ImapOnException

\* off by one: the cap lets one more frame connect
CapReached_off(r) == r > SubRetryCap

\* lines 71 and 154, if retry >= 20: the frame raises the timeout
CapReached(r) == r >= SubRetryCap

\* lines 69-75: sub-retry cap, then IMAP4_SSL(...)
ImapEnter ==
    /\ pc = "imap_enter"
    /\ IF CapReached(retry)
       THEN /\ timedOut' = TRUE
            /\ exc' = "timeout"
            /\ pc' = "imap_raise"
            /\ UNCHANGED <<open, opened, tfail, code>>
       ELSE /\ \E r \in {"ok", "raise"} :
                IF r = "ok"
                THEN /\ open' = open \cup {Session}
                     /\ opened' = opened \cup {Session}
                     /\ pc' = "imap_login"
                     /\ UNCHANGED <<tfail, code>>
                ELSE /\ ImapFail
                     /\ UNCHANGED <<open, opened>>
            /\ UNCHANGED <<timedOut, exc>>
    /\ UNCHANGED <<ctlVars, retry, first_id, mail_ids, idx, num_messages, tries, mailbox,
                   nextUid, stale, flagged, expunged, srcUid, lastList, lastDetail, detailReqs, delReqs>>
    /\ UNCHANGED <<calls, quits, fetched, passed>>

\* lines 76-83: login, the ID command of the NetEase providers, select
ImapLogin ==
    /\ pc = "imap_login"
    /\ \E r \in {"ok", "raise"} :
        IF r = "ok"
        THEN /\ pc' = "imap_search"
             /\ UNCHANGED <<tfail, code>>
        ELSE ImapFail
    /\ UNCHANGED <<ctlVars, retry, first_id, mail_ids, idx, num_messages, tries, srvVars,
                   exc, timedOut, flagged, expunged, srcUid, lastList, lastDetail, detailReqs, delReqs>>
    /\ UNCHANGED sessVars

\* lines 84-95: search; not OK returns None, an empty result recurses
ImapSearch ==
    /\ pc = "imap_search"
    /\ \E r \in {"ok", "no", "raise"} :
        CASE r = "raise" ->
                /\ ImapFail
                /\ UNCHANGED <<retry, mail_ids, idx>>
          [] r = "no" ->
                /\ code' = NoCode
                /\ pc' = "imap_ret"
                /\ UNCHANGED <<tfail, retry, mail_ids, idx>>
          [] r = "ok" ->
                LET ids == SearchIds(mailbox, SearchByDate(config.imap_user))
                IN IF ids = <<>>
                   THEN /\ retry' = retry + 1
                        /\ pc' = "imap_enter"
                        /\ UNCHANGED <<tfail, code, mail_ids, idx>>
                   ELSE /\ mail_ids' = ids
                        /\ idx' = Len(ids)
                        /\ pc' = "imap_fetch"
                        /\ UNCHANGED <<tfail, code, retry>>
    /\ UNCHANGED <<ctlVars, first_id, num_messages, tries, srvVars,
                   exc, timedOut, flagged, expunged, srcUid, lastList, lastDetail, detailReqs, delReqs>>
    /\ UNCHANGED sessVars

\* FETCH (RFC822) sets \Seen on the message
MarkSeen(mb, p) == [mb EXCEPT ![p].seen = TRUE]

\* lines 97-113: one iteration of the loop over reversed(mail_ids)
ImapFetch ==
    /\ pc = "imap_fetch"
    /\ IF idx = 0
       THEN /\ pc' = "imap_logout"
            /\ UNCHANGED <<tfail, code, idx, mailbox, srcUid, fetched, passed>>
       ELSE \E r \in {"ok", "no", "raise"} :
            CASE r = "raise" ->
                    /\ ImapFail
                    /\ UNCHANGED <<idx, mailbox, srcUid, fetched, passed>>
              [] r = "no" ->
                    /\ idx' = idx - 1
                    /\ passed' = passed \cup {mailbox[mail_ids[idx]].uid}
                    /\ UNCHANGED <<tfail, code, pc, mailbox, srcUid, fetched>>
              [] r = "ok" ->
                    LET p == mail_ids[idx]
                        c == ImapCodeOf(mailbox[p], SearchByDate(config.imap_user))
                    IN /\ mailbox' = MarkSeen(mailbox, p)
                       /\ fetched' = fetched \cup {p}
                       /\ IF c # NoCode
                          THEN /\ code' = c
                               /\ srcUid' = mailbox[p].uid
                               /\ pc' = "imap_store"
                               /\ UNCHANGED <<tfail, idx, passed>>
                          ELSE /\ idx' = idx - 1
                               /\ passed' = passed \cup {mailbox[p].uid}
                               /\ UNCHANGED <<tfail, code, pc, srcUid>>
    /\ UNCHANGED <<ctlVars, retry, first_id, mail_ids, num_messages, tries, nextUid, open, stale,
                   exc, timedOut, flagged, expunged, lastList, lastDetail, detailReqs, delReqs>>
    /\ UNCHANGED <<calls, opened, quits>>

\* mail.store(mail_id, '+FLAGS', '\\Deleted')
StoreDeleted(mb, p) == [mb EXCEPT ![p].deleted = TRUE]

\* line 115
ImapStore ==
    /\ pc = "imap_store"
    /\ \E r \in {"ok", "raise"} :
        IF r = "ok"
        THEN /\ mailbox' = StoreDeleted(mailbox, mail_ids[idx])
             /\ flagged' = flagged \cup {mailbox[mail_ids[idx]].uid}
             /\ pc' = "imap_expunge"
             /\ UNCHANGED <<tfail, code>>
        ELSE /\ ImapFail
             /\ UNCHANGED <<mailbox, flagged>>
    /\ UNCHANGED <<ctlVars, retry, first_id, mail_ids, idx, num_messages, tries, nextUid,
                   open, stale, exc, timedOut, expunged, srcUid, lastList, lastDetail, detailReqs, delReqs>>
    /\ UNCHANGED sessVars

\* EXPUNGE removes every message of the mailbox that carries \Deleted
Expunge(mb) == SelectSeq(mb, LAMBDA m : ~m.deleted)

\* the uids EXPUNGE removes
DeletedUids(mb) == {mb[p].uid : p \in {q \in 1..Len(mb) : mb[q].deleted}}

\* line 116
ImapExpunge ==
    /\ pc = "imap_expunge"
    /\ \E r \in {"ok", "raise"} :
        IF r = "ok"
        THEN /\ mailbox' = Expunge(mailbox)
             /\ expunged' = expunged \cup DeletedUids(mailbox)
             /\ pc' = "imap_logout"
             /\ UNCHANGED <<tfail, code>>
        ELSE /\ ImapFail
             /\ UNCHANGED <<mailbox, expunged>>
    /\ UNCHANGED <<ctlVars, retry, first_id, mail_ids, idx, num_messages, tries, nextUid,
                   open, stale, exc, timedOut, flagged, srcUid, lastList, lastDetail, detailReqs, delReqs>>
    /\ UNCHANGED sessVars

\* lines 117-118 (code found) and 120-121 (loop ended): logout, return
ImapLogout ==
    /\ pc = "imap_logout"
    /\ \E r \in {"ok", "raise"} :
        IF r = "ok"
        THEN /\ open' = open \ {Session}
             /\ pc' = "imap_ret"
             /\ UNCHANGED <<tfail, code>>
        ELSE /\ ImapFail
             /\ UNCHANGED open
    /\ UNCHANGED <<ctlVars, retry, first_id, mail_ids, idx, num_messages, tries, mailbox,
                   nextUid, stale, exc, timedOut, flagged, expunged, srcUid, lastList, lastDetail, detailReqs,
                   delReqs>>
    /\ UNCHANGED sessVars

\* a frame returns: every frame that recursed returns the value unchanged
\* (line 95), so it reaches the controller; the frames' locals are gone
ImapReturn ==
    /\ pc = "imap_ret"
    /\ retry' = 0
    /\ mail_ids' = <<>>
    /\ idx' = 0
    /\ num_messages' = 0
    /\ pc' = "ctl_ret"
    /\ UNCHANGED <<ctlVars, code, first_id, tries, srvVars, histVars>>
    /\ opened' = {}
    /\ quits' = {}
    /\ fetched' = {}
    /\ passed' = {}
    /\ UNCHANGED calls

\* the timeout of line 72 leaves its frame: the recursive call of line 95
\* stands inside the caller's try, so the caller's except takes it
ImapRaise ==
    /\ pc = "imap_raise"
    /\ IF retry > 0
       THEN /\ retry' = retry - 1
            /\ code' = NoCode
            /\ pc' = ImapOnException
       ELSE /\ pc' = "ctl_exc"
            /\ UNCHANGED <<retry, code>>
    /\ UNCHANGED <<ctlVars, first_id, mail_ids, idx, num_messages, tries, srvVars,
                   histVars>>
    /\ UNCHANGED sessVars

(* ------------------------------- POP3 --------------------------------- *)
\* max(1, num_messages-9): the loop runs i = num_messages down to this + 1
Pop3Stop(n) == IF n - Pop3Window > 1 THEN n - Pop3Window ELSE 1

\* a backend that deletes the message it took the code from, as IMAP does
Pop3Deleted_found(i) == IF code # NoCode THEN {i} ELSE {}

\* the message numbers the session marked with DELE: the backend issues none
Pop3Deleted(i) == {}

\* QUIT commits the deletions of the session
Pop3Commit(mb, marked) == SelectSeq(mb, LAMBDA m : \A p \in marked : mb[p].uid # m.uid)

\* except Exception (lines 186-193): quit if connected, ignoring its failure,
\* and return None
Pop3OnException == "pop3_ret"

\* a handler that never closes the session
Pop3HandlerQuits_never(connected) == FALSE

\* line 188, if pop3: the handler attempts QUIT when the connection object exists
Pop3HandlerQuits(connected) == connected

\* a step of the POP3 frame raised (lines 186-193); the sessions of attempted
\* are those on which the failing step itself was a QUIT; the handler's own
\* QUIT may fail too, which is ignored
Pop3Fail(connected, attempted) ==
    /\ tfail' = TRUE
    /\ code' = NoCode
    /\ pc' = Pop3OnException
    /\ IF Pop3HandlerQuits(connected)
       THEN /\ quits' = quits \cup attempted \cup {Session}
            /\ \E q \in {"ok", "raise"} :
                open' = IF q = "ok" THEN open \ {Session} ELSE open
       ELSE /\ quits' = quits \cup attempted
            /\ UNCHANGED open

\* lines 152-160: sub-retry cap, then POP3_SSL(...)
Pop3Enter ==
    /\ pc = "pop3_enter"
    /\ IF CapReached(retry)
       THEN /\ timedOut' = TRUE
            /\ exc' = "timeout"
            /\ pc' = "pop3_raise"
            /\ UNCHANGED <<open, opened, quits, tfail, code>>
       ELSE /\ \E r \in {"ok", "raise"} :
                IF r = "ok"
                THEN /\ open' = open \cup {Session}
                     /\ opened' = opened \cup {Session}
                     /\ pc' = "pop3_auth"
                     /\ UNCHANGED <<tfail, code, quits>>
                ELSE /\ Pop3Fail(FALSE, {})
                     /\ UNCHANGED opened
            /\ UNCHANGED <<timedOut, exc>>
    /\ UNCHANGED <<ctlVars, retry, first_id, mail_ids, idx, num_messages, tries, mailbox,
                   nextUid, stale, flagged, expunged, srcUid, lastList, lastDetail, detailReqs, delReqs>>
    /\ UNCHANGED <<calls, fetched, passed>>

\* lines 161-165: user, pass_, list
Pop3Auth ==
    /\ pc = "pop3_auth"
    /\ \E r \in {"ok", "raise"} :
        IF r = "ok"
        THEN /\ num_messages' = Len(mailbox)
             /\ idx' = Len(mailbox)
             /\ pc' = "pop3_retr"
             /\ UNCHANGED <<tfail, code, open, quits>>
        ELSE /\ Pop3Fail(TRUE, {})
             /\ UNCHANGED <<num_messages, idx>>
    /\ UNCHANGED <<ctlVars, retry, first_id, mail_ids, tries, mailbox, nextUid, stale,
                   exc, timedOut, flagged, expunged, srcUid, lastList, lastDetail, detailReqs, delReqs>>
    /\ UNCHANGED <<calls, opened, fetched, passed>>

\* lines 166-179: one iteration of the loop over range(n, max(1, n-9), -1)
Pop3Retr ==
    /\ pc = "pop3_retr"
    /\ IF idx > Pop3Stop(num_messages)
       THEN \E r \in {"ok", "raise"} :
            IF r = "ok"
            THEN LET c == Pop3CodeOf(mailbox[idx])
                 IN IF c # NoCode
                    THEN /\ code' = c
                         /\ srcUid' = mailbox[idx].uid
                         /\ pc' = "pop3_quit"
                         /\ UNCHANGED <<tfail, idx, open, quits>>
                    ELSE /\ idx' = idx - 1
                         /\ UNCHANGED <<tfail, code, pc, srcUid, open, quits>>
            ELSE /\ Pop3Fail(TRUE, {})
                 /\ UNCHANGED <<idx, srcUid>>
       ELSE /\ pc' = "pop3_quit"
            /\ UNCHANGED <<tfail, code, idx, srcUid, open, quits>>
    /\ UNCHANGED <<ctlVars, retry, first_id, mail_ids, num_messages, tries, mailbox,
                   nextUid, stale, exc, timedOut, flagged, expunged, lastList, lastDetail, detailReqs, delReqs>>
    /\ UNCHANGED <<calls, opened, fetched, passed>>

\* lines 180-181 (code found: quit, return) and 183-184 (scan ended: quit,
\* recurse)
Pop3Quit ==
    /\ pc = "pop3_quit"
    /\ \E r \in {"ok", "raise"} :
        IF r = "ok"
        THEN /\ open' = open \ {Session}
             /\ quits' = quits \cup {Session}
             /\ mailbox' = Pop3Commit(mailbox, Pop3Deleted(idx))
             /\ IF code # NoCode
                THEN /\ pc' = "pop3_ret"
                     /\ UNCHANGED retry
                ELSE /\ retry' = retry + 1
                     /\ pc' = "pop3_enter"
             /\ UNCHANGED <<tfail, code>>
        ELSE /\ Pop3Fail(TRUE, {Session})
             /\ UNCHANGED <<retry, mailbox>>
    /\ UNCHANGED <<ctlVars, first_id, mail_ids, idx, num_messages, tries, nextUid, stale,
                   exc, timedOut, flagged, expunged, srcUid, lastList, lastDetail, detailReqs, delReqs>>
    /\ UNCHANGED <<calls, opened, fetched, passed>>

\* a frame returns: every frame that recursed returns the value unchanged
\* (line 184), so it reaches the controller; the frames' locals are gone
Pop3Return ==
    /\ pc = "pop3_ret"
    /\ retry' = 0
    /\ mail_ids' = <<>>
    /\ idx' = 0
    /\ num_messages' = 0
    /\ pc' = "ctl_ret"
    /\ UNCHANGED <<ctlVars, code, first_id, tries, srvVars, histVars>>
    /\ opened' = {}
    /\ quits' = {}
    /\ fetched' = {}
    /\ passed' = {}
    /\ UNCHANGED calls

\* the timeout of line 155 leaves its frame: the recursive call of line 184
\* stands inside the caller's try, so the caller's except takes it
Pop3Raise ==
    /\ pc = "pop3_raise"
    /\ IF retry > 0
       THEN /\ retry' = retry - 1
            /\ code' = NoCode
            /\ pc' = Pop3OnException
       ELSE /\ pc' = "ctl_exc"
            /\ UNCHANGED <<retry, code>>
    /\ UNCHANGED <<ctlVars, first_id, mail_ids, idx, num_messages, tries, srvVars,
                   histVars>>
    /\ UNCHANGED sessVars

(* --------------------------- specification ---------------------------- *)
Next ==
    \/ Deliver
    \/ Call
    \/ LoopHead
    \/ CtlReturn
    \/ CtlExcept
    \/ HttpList
    \/ HttpDetail
    \/ Cleanup
    \/ ImapEnter
    \/ ImapLogin
    \/ ImapSearch
    \/ ImapFetch
    \/ ImapStore
    \/ ImapExpunge
    \/ ImapLogout
    \/ ImapReturn
    \/ ImapRaise
    \/ Pop3Enter
    \/ Pop3Auth
    \/ Pop3Retr
    \/ Pop3Quit
    \/ Pop3Return
    \/ Pop3Raise

Spec == Init /\ [][Next]_vars

\* the steps of the program itself: every one of them returns once every
\* network call and sleep returns
Step ==
    \/ LoopHead
    \/ CtlReturn
    \/ CtlExcept
    \/ HttpList
    \/ HttpDetail
    \/ Cleanup
    \/ ImapEnter
    \/ ImapLogin
    \/ ImapSearch
    \/ ImapFetch
    \/ ImapStore
    \/ ImapExpunge
    \/ ImapLogout
    \/ ImapReturn
    \/ ImapRaise
    \/ Pop3Enter
    \/ Pop3Auth
    \/ Pop3Retr
    \/ Pop3Quit
    \/ Pop3Return
    \/ Pop3Raise

\* the single thread of a call keeps running until the call is over
FairSpec == Spec /\ WF_vars(Step)

(* ------------------------------ claims -------------------------------- *)
Backend == SelectBackend(config)
Invocations == Len(outcomes)
AllOutcomes(o) == \A i \in 1..Len(outcomes) : outcomes[i] = o
LastOutcome == IF outcomes = <<>> THEN "none" ELSE outcomes[Len(outcomes)]
Uids(mb) == {mb[p].uid : p \in 1..Len(mb)}

\* C1: when every backend invocation of a call reported "no code" without
\* raising, the finished call has invoked the backend exactly max_retries
\* times and has failed with the exhausted error, never with a code.
C1_ExhaustedAfterN ==
    /\ AllOutcomes("none") => Invocations <= max_retries
    /\ (pc = "done" /\ AllOutcomes("none")) =>
            /\ Invocations = max_retries
            /\ result = [kind |-> "exhausted", code |-> NoCode]

C1_Witness ==
    /\ pc = "done"
    /\ max_retries = MaxRetries
    /\ Invocations = MaxRetries
    /\ AllOutcomes("none")
    /\ result.kind = "exhausted"

\* C2: when the backend raised on attempts 1..k-1 and produced a code on
\* attempt k, the finished call has returned that code, without raising,
\* after exactly k backend invocations.
C2_CodeOfAttemptK ==
    \A k \in 1..Len(outcomes) :
        ( /\ pc = "done"
          /\ outcomes[k] = "code"
          /\ \A i \in 1..(k - 1) : outcomes[i] = "raise" )
        => /\ result = [kind |-> "code", code |-> code]
           /\ Invocations = k

\* C3: once a backend invocation has produced a code the call returns it at
\* once: the controller is only cleaning up or done, it has invoked no further
\* backend and slept no more, and the finished call has returned that code.
C3_ReturnsAtOnce ==
    (\E i \in 1..Len(outcomes) : outcomes[i] = "code") =>
        /\ pc \in {"cleanup", "done"}
        /\ LastOutcome = "code"
        /\ pc = "done" => result = [kind |-> "code", code |-> code]

\* C4: an exception of the backend is propagated only from the final attempt,
\* as the wrapped error; on an earlier attempt the controller sleeps and goes
\* on to the next attempt; a final attempt that only reports "no code" ends in
\* the exhausted error instead.
C4_ExceptionPolicy ==
    /\ [](pc = "done" /\ result.kind = "wrapped" => Invocations = max_retries)
    /\ [](pc = "done" /\ LastOutcome = "raise" /\ Invocations = max_retries
            => result.kind = "wrapped")
    /\ [](pc = "done" /\ LastOutcome = "none" /\ Invocations = max_retries
            => result.kind = "exhausted")
    /\ [][(pc = "ctl_exc" /\ exc # "cleanup" /\ attempt < max_retries - 1) =>
            /\ pc' = "loop"
            /\ attempt' = attempt + 1
            /\ ctlSleeps' = ctlSleeps + 1
            /\ result' = NoResult]_vars

C4_Witness ==
    /\ pc = "done"
    /\ max_retries = MaxRetries
    /\ AllOutcomes("raise")
    /\ Invocations = MaxRetries
    /\ ctlSleeps = MaxRetries - 1
    /\ result.kind = "wrapped"

\* C5: an IMAP backend invocation that hit the sub-retry cap (every one of
\* its sessions found no message) fails by raising the timeout to its
\* caller: it never comes back to the controller with a return value.
C5_ImapTimeoutRaised ==
    (Backend = "IMAP" /\ timedOut) => pc \in {"imap_raise", "ctl_exc", "loop", "done"}

\* C6: a POP3 backend invocation that hit the sub-retry cap (no scanned
\* message had the expected sender) fails by raising the timeout to its
\* caller: it never comes back to the controller with a return value.
C6_Pop3TimeoutRaised ==
    (Backend = "POP3" /\ timedOut) => pc \in {"pop3_raise", "ctl_exc", "loop", "done"}

\* C7 as stated: a transport failure of a network step is never raised out of
\* a backend to the retry controller, whichever backend runs.
C7_NeverRaisedOut ==
    ~(pc = "ctl_exc" /\ exc = "transport")

\* C7 as amended: the IMAP and POP3 backends catch a transport failure of any
\* network step and return "no code", never raising to the controller; a
\* failure of a GET of the HTTP backend is raised to the controller.
C7_CaughtByMailBackends ==
    /\ Backend \in {"IMAP", "POP3"} =>
            /\ pc # "ctl_exc"
            /\ (tfail /\ pc \in {"imap_ret", "pop3_ret", "ctl_ret"}) => code = NoCode
            /\ (tfail /\ pc \in {"loop", "done"}) => LastOutcome = "none"
            /\ tfail => pc \in {"imap_ret", "pop3_ret", "ctl_ret", "loop", "done"}
    /\ (Backend = "HTTP" /\ tfail) =>
            /\ pc \in {"ctl_exc", "loop", "done"}
            /\ pc # "ctl_exc" => LastOutcome = "raise"

C7_Witness ==
    /\ Backend = "IMAP"
    /\ pc = "ctl_ret"
    /\ tfail
    /\ open # {}
    /\ code = NoCode

\* C8: whenever the IMAP backend returns a code, the message the code came
\* from has been flagged \Deleted and removed by the expunge, and the backend
\* has flagged or removed no other message.
C8_OnlySourceDeleted ==
    (Backend = "IMAP" /\ pc = "ctl_ret" /\ code # NoCode) =>
        /\ srcUid \in flagged
        /\ srcUid \notin Uids(mailbox)
        /\ flagged \subseteq {srcUid}
        /\ expunged \subseteq {srcUid}

\* C9: no step of the POP3 backend deletes a message: every message of the
\* mailbox is still there, unchanged and in place, after every step, the
\* return of a code included.
C9_Pop3KeepsMessages ==
    [][Backend = "POP3" =>
        /\ Len(mailbox') >= Len(mailbox)
        /\ SubSeq(mailbox', 1, Len(mailbox)) = mailbox]_vars

C9_Witness ==
    /\ Backend = "POP3"
    /\ pc = "done"
    /\ result.kind = "code"
    /\ srcUid \in Uids(mailbox)

\* C10: the HTTP backend asks for the detail only after a list response with a
\* true result and a message id; otherwise, and after an unsuccessful detail
\* response, it returns (None, None); a code comes with a message id.
C10_HttpNoneNone ==
    Backend = "HTTP" =>
        /\ (pc = "http_detail" \/ detailReqs > 0) =>
                /\ lastList.kind = "json"
                /\ lastList.result
                /\ lastList.first_id # NoId
        /\ pc = "http_detail" => first_id = lastList.first_id
        /\ (pc = "ctl_ret" /\ ~(lastList.result /\ lastList.first_id # NoId)) =>
                /\ code = NoCode
                /\ first_id = NoId
                /\ detailReqs = 0
        /\ (pc = "ctl_ret" /\ lastDetail = "false") => (code = NoCode /\ first_id = NoId)
        /\ pc = "ctl_ret" => (code = NoCode <=> first_id = NoId)

C10_Witness ==
    /\ Backend = "HTTP"
    /\ pc = "ctl_ret"
    /\ lastList.kind = "json"
    /\ ~lastList.result
    /\ lastList.first_id # NoId
    /\ detailReqs = 0
    /\ code = NoCode

\* C11: _cleanup_mail makes at most five delete requests, every failed or
\* malformed response being one used-up try, and no behaviour of the delete
\* request, a transport failure of the request included, makes it raise: no
\* exception of the cleanup ever reaches the controller.
C11_CleanupNeverRaises ==
    /\ pc = "cleanup" => tries <= CleanupTries
    /\ exc # "cleanup"

\* the protocol setting reads IMAP in some mix of upper and lower case
IsImapAnyCase(p) ==
    /\ Len(p) = 4
    /\ p[1] \in {"i", "I"}
    /\ p[2] \in {"m", "M"}
    /\ p[3] \in {"a", "A"}
    /\ p[4] \in {"p", "P"}

\* the backend the configuration calls for
ExpectedBackend ==
    IF ~config.imap THEN "HTTP"
    ELSE IF IsImapAnyCase(config.protocol) THEN "IMAP" ELSE "POP3"

\* positions inside the code of each backend
HttpPcs == {"http_list", "http_detail", "cleanup"}
ImapPcs == {"imap_enter", "imap_login", "imap_search", "imap_fetch", "imap_store",
            "imap_expunge", "imap_logout", "imap_ret", "imap_raise"}
Pop3Pcs == {"pop3_enter", "pop3_auth", "pop3_retr", "pop3_quit", "pop3_ret", "pop3_raise"}

\* C12: every outer attempt invokes one backend, once, and it is the one the
\* configuration calls for: HTTP without a mail server, else IMAP when the
\* protocol reads IMAP in any case, else POP3 (any other, empty or missing
\* protocol); it is the same backend on every attempt.
C12_OneBackendFromConfig ==
    /\ \A i \in 1..Len(calls) : calls[i] = ExpectedBackend
    /\ pc \in HttpPcs => ExpectedBackend = "HTTP"
    /\ pc \in ImapPcs => ExpectedBackend = "IMAP"
    /\ pc \in Pop3Pcs => ExpectedBackend = "POP3"
    /\ pc = "loop" => Len(calls) = attempt
    /\ pc \in HttpPcs \cup ImapPcs \cup Pop3Pcs \cup {"ctl_ret", "ctl_exc"}
            => Len(calls) = attempt + 1
    /\ pc = "done" =>
            Len(calls) = IF result.kind = "exhausted" THEN attempt ELSE attempt + 1

C12_Witness ==
    /\ config.imap
    /\ config.protocol = <<"i", "M", "a", "p">>
    /\ pc = "done"
    /\ Len(calls) = MaxRetries
    /\ \A i \in 1..Len(calls) : calls[i] = "IMAP"

\* C13: in HTTP mode a delete request is made only by the cleanup of an
\* attempt whose backend produced a code, and carries the message id the
\* backend returned with that code; the cleanup has finished (a response with
\* a true result, or its tries used up) when the code is returned to the
\* caller; an attempt that found no code makes no delete request.
C13_CleanupOnlyForFoundCode ==
    /\ [](pc = "cleanup" =>
            /\ Backend = "HTTP"
            /\ LastOutcome = "code"
            /\ code # NoCode
            /\ first_id # NoId
            /\ first_id = lastList.first_id
            /\ first_id = srcUid)
    /\ [][delReqs' # delReqs =>
            /\ pc = "cleanup"
            /\ LastOutcome = "code"
            /\ Invocations = Len(calls)
            /\ delReqs' = Append(delReqs, srcUid)]_vars
    /\ [][(Backend = "HTTP" /\ result.kind # "code" /\ result'.kind = "code") =>
            /\ pc = "cleanup"
            /\ result'.code = code
            /\ delReqs' # <<>>
            /\ delReqs'[Len(delReqs')] = srcUid
            /\ srcUid \notin Uids(mailbox') \/ tries = CleanupTries]_vars

C13_Witness ==
    /\ Backend = "HTTP"
    /\ pc = "done"
    /\ outcomes = <<"none", "code">>
    /\ result = [kind |-> "code", code |-> code]
    /\ delReqs = <<srcUid>>
    /\ srcUid # NoId

\* C14: every IMAP session the backend opened is logged out by the time the
\* backend call returns to the controller, on every path: code found, scan
\* without code, search status not OK, empty search followed by recursion,
\* exception after connecting.
C14_ImapAlwaysLoggedOut ==
    (Backend = "IMAP" /\ pc \in {"ctl_ret", "ctl_exc"}) => open = {}

\* C15: at every point at most one mail session is open: the backends never
\* open a session, for a sub-retry or for the next outer attempt, while an
\* earlier one is still open.
C15_AtMostOneSession ==
    Cardinality(open) + (IF stale THEN 1 ELSE 0) <= 1

\* C16: the POP3 backend has attempted QUIT on every session it opened before
\* it returns a code, before it recurses after a scan that ended, and before
\* it returns None after an exception; a failure of the handler's own QUIT is
\* ignored: the frame still returns None.
C16_Pop3AlwaysQuit ==
    /\ (Backend = "POP3" /\ pc \in {"pop3_enter", "pop3_ret", "pop3_raise"})
            => opened \subseteq quits
    /\ (pc = "pop3_ret" /\ code # NoCode) => open = {}
    /\ (pc = "pop3_enter") => open = {}
    /\ (pc = "pop3_ret" /\ tfail) => code = NoCode
    /\ quits \subseteq opened

C16_Witness ==
    /\ pc = "pop3_ret"
    /\ tfail
    /\ opened = {0, 1}
    /\ quits = {0, 1}
    /\ open = {1}
    /\ code = NoCode

\* the positions of the ten most recent of n messages
TenNewest(n) == {p \in 1..n : p > n - 10}

\* the positions among the ten most recent whose message has the expected
\* sender and a code
Pop3Candidates(mb, n) == {p \in TenNewest(n) : Pop3CodeOf(mb[p]) # NoCode}

\* C17: a POP3 scan covers the min(n, 10) most recent messages, newest first,
\* for every n >= 1: it ends without a code only when none of them has the
\* expected sender and a code, and a code it found is that of the newest of
\* them that has.
C17_Pop3ScansTenNewest ==
    (Backend = "POP3" /\ pc = "pop3_quit") =>
        LET cand == Pop3Candidates(mailbox, num_messages)
        IN IF code = NoCode
           THEN cand = {}
           ELSE /\ cand # {}
                /\ LET q == CHOOSE p \in cand : \A r \in cand : r <= p
                   IN /\ code = Pop3CodeOf(mailbox[q])
                      /\ srcUid = mailbox[q].uid

\* message m passes the recipient check of the date search and holds a
\* six-digit match once the account address is stripped from its body
ImapQualifies(m) ==
    /\ SearchByDate(config.imap_user) => m.to = Account
    /\ Search(StripAccount(ExtractImapBody(m)), FALSE) # NoCode

\* C18: the IMAP scan goes newest first, and the code it finds is that of the
\* newest message it fetched with status OK that passes the recipient check
\* and holds a six-digit match after the account address is stripped; only
\* that message is flagged or removed: a message that was skipped or did not
\* match is neither returned from nor deleted.
C18_ImapNewestMatch ==
    Backend = "IMAP" =>
        /\ pc = "imap_store" =>
            LET p == mail_ids[idx]
            IN /\ p \in fetched
               /\ ImapQualifies(mailbox[p])
               /\ code = Search(StripAccount(ExtractImapBody(mailbox[p])), FALSE)
               /\ srcUid = mailbox[p].uid
               /\ \A j \in (idx + 1)..Len(mail_ids) :
                    mail_ids[j] \in fetched => ~ImapQualifies(mailbox[mail_ids[j]])
        /\ pc \in {"imap_fetch", "imap_store"} =>
            /\ fetched \subseteq {mail_ids[j] : j \in (idx + 1)..Len(mail_ids)}
                                \cup (IF pc = "imap_store" THEN {mail_ids[idx]} ELSE {})
            /\ \A j \in 1..(Len(mail_ids) - 1) : mail_ids[j] < mail_ids[j + 1]
        /\ passed \cap (flagged \cup expunged) = {}
        /\ flagged \subseteq {srcUid}

\* the sleeps the controller owes after a attempts of a call of n
SleepsAfter(a, n) == IF a < n THEN a ELSE IF n > 0 THEN n - 1 ELSE 0

\* C19: the controller sleeps only between outer attempts: once after every
\* attempt that found no code or raised and is not the last, never after the
\* last; a call that failed after N attempts has slept N - 1 times.
C19_SleepsBetweenAttempts ==
    /\ pc = "loop" => ctlSleeps = SleepsAfter(attempt, max_retries)
    /\ pc \notin {"idle", "loop", "done"} => ctlSleeps = attempt
    /\ (pc = "done" /\ result.kind \in {"exhausted", "wrapped"} /\ max_retries > 0) =>
            /\ Len(calls) = max_retries
            /\ ctlSleeps = max_retries - 1
    /\ (pc = "done" /\ result.kind = "code") => ctlSleeps = Len(calls) - 1

C19_Witness ==
    /\ pc = "done"
    /\ result.kind = "wrapped"
    /\ max_retries = MaxRetries
    /\ Len(outcomes) = MaxRetries
    /\ outcomes[1] = "none"
    /\ LastOutcome = "raise"
    /\ ctlSleeps = MaxRetries - 1

\* C20: the IMAP backend never consumes a message without delivering its
\* code: whenever a backend call has flagged a message \Deleted or expunged
\* one, it returns the code it took from that message, also when a later
\* step (expunge, logout) fails.
C20_ImapConsumedMeansDelivered ==
    (Backend = "IMAP" /\ pc = "ctl_ret" /\ flagged \cup expunged # {}) =>
        /\ code # NoCode
        /\ srcUid \in flagged

\* C21: in HTTP mode a code the backend found is never discarded: in the
\* attempt whose backend produced a code and a message id the call goes on to
\* return that code, whatever the cleanup does (delete succeeds, false after
\* five failures, transport failure of the delete request).
C21_HttpCodeNeverDiscarded ==
    (Backend = "HTTP" /\ LastOutcome = "code" /\ Invocations = Len(calls)) =>
        /\ pc \in {"cleanup", "done"}
        /\ Len(calls) = attempt + 1
        /\ pc = "done" => result = [kind |-> "code", code |-> code]

\* C22: every call terminates once every network call and sleep returns: a
\* call that has started ends by returning a code or raising; an outer
\* attempt opens at most 20 IMAP/POP3 sessions, one per frame 0..19, and a
\* call makes at most max_retries attempts, so at most 20 * max_retries
\* sessions in all.
C22_TerminatesWithinBudget ==
    /\ [](Cardinality(opened) <= SubRetryCap)
    /\ [](opened \subseteq 0..(SubRetryCap - 1))
    /\ [](Backend = "HTTP" => opened = {})
    /\ [](Len(calls) <= max_retries)
    /\ [](opened # {} => Len(calls) = attempt + 1)
    /\ [][opened' # opened =>
            \/ opened' = {}
            \/ \E r \in 0..(SubRetryCap - 1) : r \notin opened /\ opened' = opened \cup {r}]_vars
    /\ (pc = "loop") ~> (pc = "done" /\ result.kind \in {"code", "exhausted", "wrapped"})

C22_Witness ==
    /\ pc \in {"imap_ret", "pop3_ret"}
    /\ Cardinality(opened) = SubRetryCap
    /\ Len(calls) = MaxRetries
    /\ max_retries = MaxRetries

============================================================================
